---- MODULE Spec2Model ----
(***************************************************************************)
(* Offline write-queue and resync protocol of pizza-hunt                   *)
(* (public/assets/js/idb.js): an IndexedDB object store `new_pizza` with   *)
(* an auto-incrementing key, saveRecord() to enqueue, uploadPizza() to     *)
(* drain + POST + clear, triggered by the open-success callback and by the *)
(* browser's 'online' event.                                               *)
(*                                                                         *)
(* IndexedDB executes readwrite transactions over the same object store in *)
(* the order they were created; every transaction of idb.js holds exactly  *)
(* one request, so the storage layer is a FIFO of requests (`pending`).    *)
(*                                                                         *)
(* ServerSpec is the server on its own (controllers/pizza-controller.js,   *)
(* controllers/comment-controller.js, models/): the Pizza and Comment      *)
(* collections and one action per request handler.                         *)
(***************************************************************************)
EXTENDS Integers, Sequences, FiniteSets, TLC

\* ---- bounds of the model ----
MaxSaves == 2       \* records handed to the store by saveRecord
MaxSyncs == 2       \* calls of uploadPizza that reach db.transaction
MaxPizzas == 2      \* Pizza documents ever created
MaxComments == 2    \* Comment documents ever created
MaxReplies == 1     \* replies ever created

\* ---- input domains ----
PizzaNames == {"Zesty"}
NoField == "<absent>"
\* HTTP statuses the POST can complete with
Statuses == {200, 500}
\* a response body: not JSON at all, or a JSON value whose `message`
\* property is absent, the empty string, or an error text
Messages == {NoField, "", "Pizza validation failed"}
Bodies == {[json |-> FALSE, message |-> NoField]}
          \cup {[json |-> TRUE, message |-> m] : m \in Messages}
NoBody == [json |-> FALSE, message |-> "<none>"]
NetworkError == 0   \* fetch() rejected: no HTTP status
NoStatus == -1      \* no completion
NoCompletion == [sync |-> 0, status |-> NoStatus, body |-> NoBody]

VARIABLES
    online,      \* navigator.onLine
    db,          \* the global `db`: "undefined" or "open"
    openReq,     \* indexedDB.open request: "pending", "success", "error"
    store,       \* object store new_pizza: entries [key, value] in key order
    keyGen,      \* the store's key generator (autoIncrement)
    pending,     \* IndexedDB requests placed and not yet executed, FIFO
    syncs,       \* one entry per uploadPizza() run, in call order
    saveCount,   \* number of records saveRecord() handed to the store
    completed,   \* history: values whose add() succeeded, in order
    clearedUpTo, \* history: Len(completed) when clear() last executed
    removed,     \* history: <<record id, sync>> for records deleted by clear()
    threw,       \* the step just taken threw a TypeError on the undefined `db`
    storeAtLoad, \* history: store contents when the current page was loaded
    savesAtTrigger, \* history: saveCount when uploadPizza() was last called
    last         \* the POST completion handled by the step just taken, if any

vars == <<online, db, openReq, store, keyGen, pending, syncs, saveCount,
          completed, clearedUpTo, removed, threw, storeAtLoad,
          savesAtTrigger, last>>

\* the server (server.js, controllers, models)
VARIABLES
    pizzas,      \* collection Pizza: _id -> document
    comments,    \* collection Comment: _id -> document
    pizzaSeq,    \* number of Pizza _ids generated
    commentSeq,  \* number of Comment _ids generated
    replySeq,    \* number of replyIds generated
    req,         \* the request the step just taken handled
    res          \* what its handler did with the response object

serverVars == <<pizzas, comments, pizzaSeq, commentSeq, replySeq, req, res>>
allVars == <<vars, serverVars>>

\* ---- helpers ----
NoValue == [id |-> 0, pizzaName |-> "<none>"]

Req(op, value, sync) == [op |-> op, value |-> value, sync |-> sync]

RECURSIVE MapValues(_)
MapValues(entries) ==
    IF entries = <<>> THEN <<>>
    ELSE <<Head(entries).value>> \o MapValues(Tail(entries))

RECURSIVE MapValuesDescending(_)
MapValuesDescending(entries) ==
    IF entries = <<>> THEN <<>>
    ELSE Append(MapValuesDescending(Tail(entries)), Head(entries).value)

\* variant: getAll() returning the values in descending key order
GetAllResult_Descending(entries) == MapValuesDescending(entries)

\* variant: getAll() called with a count of 1
GetAllResult_FirstOnly(entries) ==
    IF entries = <<>> THEN <<>> ELSE <<Head(entries).value>>

\* IDBObjectStore.getAll(): the values of all entries, ascending by key
GetAllResult(entries) == MapValues(entries)

\* IDBObjectStore.add(value) on an autoIncrement store: key = generator + 1
AddEntry(entries, gen, value) == Append(entries, [key |-> gen + 1, value |-> value])

\* variant: clear() leaves the newest entry in place
ClearResult_KeepNewest(entries) ==
    IF entries = <<>> THEN <<>> ELSE <<entries[Len(entries)]>>

\* variant: clear() that deletes only the oldest entry
ClearResult_OldestOnly(entries) == IF entries = <<>> THEN <<>> ELSE Tail(entries)

\* IDBObjectStore.clear(): removes every entry of the store
ClearResult(entries) == <<>>

\* JS truthiness of serverResponse.message
Truthy(m) == m # NoField /\ m # ""

Ids(values) == {values[i].id : i \in 1..Len(values)}

InFlight(s) == s.phase \in {"getAll", "fetch"}

\* the bookkeeping of one uploadPizza() run.  Program state: phase, batch
\* (getAll.result).  History: trigger (what called it, kept while its page
\* is loaded), current (it belongs to the page now loaded), quick (it was called while the previous run was still in flight
\* and with no saveRecord since that run was called), drained, base/seen
\* (the window of `completed` its getAll saw), posts/clears/alerts/logged
\* (effects it issued), accepted (its POST was answered 2xx with a JSON
\* value without message field), clearedAt (Len(completed) when its
\* clear() executed).
NewSync(trigger) ==
    [trigger |-> trigger, phase |-> "getAll", batch |-> <<>>,
     current |-> TRUE,
     quick |-> (/\ Len(syncs) > 0
                /\ InFlight(syncs[Len(syncs)])
                /\ savesAtTrigger = saveCount),
     drained |-> FALSE, base |-> 0, seen |-> 0,
     posts |-> 0, clears |-> 0, alerts |-> 0, logged |-> 0,
     accepted |-> FALSE, clearedAt |-> -1, postBody |-> <<>>]

\* JSON text as a sequence of lexical tokens: a punctuation mark, a number
\* in decimal, or a string between two quote tokens
Quote == "\""
Str(t) == <<Quote, t, Quote>>
Num(n) == <<ToString(n)>>
\* the number a decimal token stands for
ParseNum(token) == CHOOSE n \in 0..MaxSaves : ToString(n) = token

\* JSON.stringify of one stored record
StringifyRecord(r) ==
    <<"{">> \o Str("id") \o <<":">> \o Num(r.id) \o <<",">>
        \o Str("pizzaName") \o <<":">> \o Str(r.pizzaName) \o <<"}">>

RECURSIVE StringifyElements(_)
StringifyElements(records) ==
    IF records = <<>> THEN <<>>
    ELSE IF Len(records) = 1 THEN StringifyRecord(Head(records))
    ELSE StringifyRecord(Head(records)) \o <<",">>
             \o StringifyElements(Tail(records))

\* variant: only the first record of the result is serialised
JSONStringify_FirstOnly(records) ==
    <<"[">> \o StringifyElements(SubSeq(records, 1, 1)) \o <<"]">>

\* JSON.stringify(getAll.result): one JSON array holding every record
JSONStringify(records) ==
    <<"[">> \o StringifyElements(records) \o <<"]">>

\* the array a JSON parser reads back from a request body: each element is
\* {"id":<number>,"pizzaName":"<string>"}, 15 tokens, and a comma follows
\* all but the last
RECURSIVE ParseElements(_)
ParseElements(tokens) ==
    IF Len(tokens) < 15 THEN <<>>
    ELSE <<[id |-> ParseNum(tokens[6]), pizzaName |-> tokens[13]]>>
             \o ParseElements(SubSeq(tokens, 17, Len(tokens)))
JSONParse(tokens) == ParseElements(SubSeq(tokens, 2, Len(tokens) - 1))

\* uploadPizza() lines 92-98: open a transaction and place getAll()
UploadPizzaStart(trigger) ==
    /\ Len(syncs) < MaxSyncs
    /\ syncs' = Append(syncs, NewSync(trigger))
    /\ pending' = Append(pending, Req("getAll", NoValue, Len(syncs) + 1))
    /\ savesAtTrigger' = saveCount

\* ---- the server: data ----
\* PizzaSchema.size: the enum and the default
SizeEnum == {"Personal", "Small", "Medium", "Large", "Extra Large"}
SizeDefault == "Large"

\* one pizza object of a request body: complete (the size is left to its
\* default), without its name, without its author, with a size outside the
\* enum
PizzaInput(n, c, z) == [pizzaName |-> n, createdBy |-> c, size |-> z]
PizzaInputs ==
    {PizzaInput("Zesty", "Lernantino", NoField),
     PizzaInput(NoField, "Lernantino", NoField),
     PizzaInput("Zesty", NoField, NoField),
     PizzaInput("Zesty", "Lernantino", "Huge")}

\* the body of POST /api/pizzas: one object, or an array of objects (an
\* upload is never empty)
PizzaBodies ==
    {[array |-> FALSE, items |-> <<x>>] : x \in PizzaInputs}
    \cup {[array |-> TRUE, items |-> <<x>>] : x \in PizzaInputs}
    \cup {[array |-> TRUE, items |-> <<x, y>>] : x, y \in PizzaInputs}
NoItems == [array |-> FALSE, items |-> <<>>]

\* PizzaSchema validation of one object: pizzaName and createdBy are
\* required, size is required with a default and restricted to the enum
ValidPizza(x) ==
    /\ x.pizzaName # NoField
    /\ x.createdBy # NoField
    /\ x.size \in SizeEnum \cup {NoField}

\* the document Mongoose builds from a valid object
NewPizza(x) ==
    [pizzaName |-> x.pizzaName, createdBy |-> x.createdBy,
     size |-> IF x.size = NoField THEN SizeDefault ELSE x.size,
     comments |-> <<>>]

\* the comments array of a Pizza document as the queries of the
\* controllers load it: no query populates it, so its elements are the
\* ObjectIds, which have no `replies` property
Unpopulated(ids) ==
    [k \in 1..Len(ids) |-> [id |-> ids[k], isDocument |-> FALSE, replies |-> <<>>]]

\* result of a getter that threw a TypeError
Throws == -1

\* this.comments.reduce((total, comment) =>
\*     total + comment.replies.length + 1, 0): reading `length` of the
\* missing `replies` of an element that is not a Comment document throws
RECURSIVE Reduce(_, _)
Reduce(total, elements) ==
    IF elements = <<>> THEN total
    ELSE IF ~Head(elements).isDocument THEN Throws
    ELSE Reduce(total + Len(Head(elements).replies) + 1, Tail(elements))

\* PizzaSchema.virtual('commentCount')
commentCount(elements) == Reduce(0, elements)

\* a Pizza document as toJSON (virtuals: true) shows it
PizzaJson(id, doc) ==
    [id |-> id, pizzaName |-> doc.pizzaName, createdBy |-> doc.createdBy,
     size |-> doc.size, comments |-> doc.comments,
     commentCount |-> commentCount(Unpopulated(doc.comments))]

\* the argument of a res.json() call
Json(kind, id, docs, message) ==
    [kind |-> kind, id |-> id, docs |-> docs, message |-> message]
ValidationError == Json("error", 0, <<>>, "Pizza validation failed")
NoPizzaFound == Json("object", 0, <<>>, "No pizza found with this id!")
NoCommentFound == Json("object", 0, <<>>, "No comment with this id!")
NullJson == Json("null", 0, <<>>, NoField)
\* the response object itself: it refers to req, which refers back to it
ResObject == Json("res", 0, <<>>, NoField)
TypeErrorJson == Json("error", 0, <<>>, "Converting circular structure to JSON")
GetterErrorJson == Json("error", 0, <<>>, "Cannot read property 'length' of undefined")

NoRequest ==
    [handler |-> "<none>", pizzaId |-> 0, commentId |-> 0, replyId |-> 0,
     body |-> NoItems]
Request(handler, pizzaId, commentId, replyId, body) ==
    [handler |-> handler, pizzaId |-> pizzaId, commentId |-> commentId,
     replyId |-> replyId, body |-> body]

\* a response object nothing has been written to
NoResponse == [calls |-> <<>>, unhandled |-> FALSE]

\* res.status(status).json(body): JSON.stringify(body) runs first and
\* throws on a circular argument and on a document whose commentCount
\* getter throws; otherwise the call sends the response, unless one was
\* sent already, and then it throws ERR_HTTP_HEADERS_SENT
ResJson(r, status, body) ==
    [r EXCEPT !.calls = Append(@,
        [status |-> status, body |-> body,
         outcome |->
            IF \/ body.kind = "res"
               \/ \E k \in 1..Len(body.docs) : body.docs[k].commentCount = Throws
            THEN "TypeError"
            ELSE IF \A k \in 1..Len(r.calls) : r.calls[k].outcome # "sent"
            THEN "sent"
            ELSE "ERR_HTTP_HEADERS_SENT"])]

\* .then(dbPizzaData => res.json(dbPizzaData)).catch(err =>
\* res.status(catchStatus).json(err)): what res.json() throws is handed to
\* the catch handler
ThenCatch(body, catchStatus) ==
    LET first == ResJson(NoResponse, 200, body)
    IN  IF first.calls[1].outcome = "sent" THEN first
        ELSE ResJson(first, catchStatus, GetterErrorJson)

ServerStart ==
    /\ pizzas = <<>>
    /\ comments = <<>>
    /\ pizzaSeq = 0
    /\ commentSeq = 0
    /\ replySeq = 0
    /\ req = NoRequest
    /\ res = NoResponse

Init ==
    /\ online \in BOOLEAN
    /\ db = "undefined"
    /\ openReq = "pending"
    /\ store = <<>>
    /\ keyGen = 0
    /\ pending = <<>>
    /\ syncs = <<>>
    /\ saveCount = 0
    /\ completed = <<>>
    /\ clearedUpTo = 0
    /\ removed = {}
    /\ threw = FALSE
    /\ storeAtLoad = <<>>
    /\ savesAtTrigger = 0
    /\ last = NoCompletion
    /\ ServerStart

\* variant: request.onsuccess without the navigator.onLine test
OpenSuccess_NoOnlineTest ==
    /\ UNCHANGED serverVars
    /\ openReq = "pending"
    /\ openReq' = "success"
    /\ db' = "open"
    /\ UploadPizzaStart("open")
    /\ last' = NoCompletion
    /\ threw' = FALSE
    /\ UNCHANGED <<online, store, keyGen, saveCount, completed,
                   clearedUpTo, removed, storeAtLoad>>

\* request.onsuccess
OpenSuccess ==
    /\ UNCHANGED serverVars
    /\ openReq = "pending"
    /\ openReq' = "success"
    /\ db' = "open"
    /\ IF online
       THEN UploadPizzaStart("open")
       ELSE UNCHANGED <<syncs, pending, savesAtTrigger>>
    /\ last' = NoCompletion
    /\ threw' = FALSE
    /\ UNCHANGED <<online, store, keyGen, saveCount, completed,
                   clearedUpTo, removed, storeAtLoad>>

\* request.onerror
OpenError ==
    /\ UNCHANGED serverVars
    /\ openReq = "pending"
    /\ openReq' = "error"
    /\ last' = NoCompletion
    /\ threw' = FALSE
    /\ UNCHANGED <<online, db, store, keyGen, pending, syncs, saveCount,
                   completed, clearedUpTo, removed, storeAtLoad,
                   savesAtTrigger>>

\* saveRecord(record): called by the form's submit handler
SaveRecord(name) ==
    /\ UNCHANGED serverVars
    /\ saveCount < MaxSaves
    /\ IF db = "undefined"
       THEN /\ threw' = TRUE
            /\ UNCHANGED <<pending, saveCount>>
       ELSE /\ pending' = Append(pending,
                    Req("add", [id |-> saveCount + 1, pizzaName |-> name], 0))
            /\ saveCount' = saveCount + 1
            /\ threw' = FALSE
    /\ last' = NoCompletion
    /\ UNCHANGED <<online, db, openReq, store, keyGen, syncs, completed, clearedUpTo, removed, storeAtLoad,
                   savesAtTrigger>>

\* the browser goes offline
GoOffline ==
    /\ UNCHANGED serverVars
    /\ online
    /\ online' = FALSE
    /\ last' = NoCompletion
    /\ threw' = FALSE
    /\ UNCHANGED <<db, openReq, store, keyGen, pending, syncs, saveCount,
                   completed, clearedUpTo, removed, storeAtLoad,
                   savesAtTrigger>>

\* window 'online' event -> uploadPizza
OnlineEvent ==
    /\ UNCHANGED serverVars
    /\ ~online
    /\ online' = TRUE
    /\ IF db = "undefined"
       THEN /\ threw' = TRUE
            /\ UNCHANGED <<syncs, pending, savesAtTrigger>>
       ELSE /\ UploadPizzaStart("online")
            /\ threw' = FALSE
    /\ last' = NoCompletion
    /\ UNCHANGED <<db, openReq, store, keyGen, saveCount, completed, clearedUpTo, removed, storeAtLoad>>

\* the storage layer executes the oldest request: add() succeeds
IDBAdd ==
    /\ UNCHANGED serverVars
    /\ pending # <<>>
    /\ Head(pending).op = "add"
    /\ store' = AddEntry(store, keyGen, Head(pending).value)
    /\ keyGen' = keyGen + 1
    /\ completed' = Append(completed, Head(pending).value)
    /\ pending' = Tail(pending)
    /\ last' = NoCompletion
    /\ threw' = FALSE
    /\ UNCHANGED <<online, db, openReq, syncs, saveCount, clearedUpTo, removed, storeAtLoad,
                   savesAtTrigger>>

\* add() fails (quota exceeded): no handler is attached, the record is dropped
IDBAddError ==
    /\ UNCHANGED serverVars
    /\ pending # <<>>
    /\ Head(pending).op = "add"
    /\ pending' = Tail(pending)
    /\ last' = NoCompletion
    /\ threw' = FALSE
    /\ UNCHANGED <<online, db, openReq, store, keyGen, syncs, saveCount,
                   completed, clearedUpTo, removed, storeAtLoad,
                   savesAtTrigger>>

\* variant: getAll.onsuccess without the length test
GetAllOnSuccess_NoLengthTest(result, s) ==
    [s EXCEPT !.phase = "fetch", !.batch = result, !.posts = @ + 1,
              !.postBody = JSONStringify(result)]

\* getAll.onsuccess
GetAllOnSuccess(result, s) ==
    IF Len(result) > 0
    THEN [s EXCEPT !.phase = "fetch", !.batch = result, !.posts = @ + 1,
                   !.postBody = JSONStringify(result)]
    ELSE [s EXCEPT !.phase = "done", !.batch = result]

\* the storage layer executes getAll() and its onsuccess handler runs
IDBGetAll ==
    /\ UNCHANGED serverVars
    /\ pending # <<>>
    /\ Head(pending).op = "getAll"
    /\ LET i == Head(pending).sync
       IN syncs' = [syncs EXCEPT ![i] =
              [GetAllOnSuccess(GetAllResult(store), syncs[i])
                  EXCEPT !.drained = TRUE, !.base = clearedUpTo,
                         !.seen = Len(completed)]]
    /\ pending' = Tail(pending)
    /\ last' = NoCompletion
    /\ threw' = FALSE
    /\ UNCHANGED <<online, db, openReq, store, keyGen, saveCount, completed, clearedUpTo, removed, storeAtLoad,
                   savesAtTrigger>>

\* the storage layer executes clear()
IDBClear ==
    /\ UNCHANGED serverVars
    /\ pending # <<>>
    /\ Head(pending).op = "clear"
    /\ store' = ClearResult(store)
    /\ removed' = removed \cup
           {<<store[k].value.id, Head(pending).sync>> : k \in 1..Len(store)}
    /\ clearedUpTo' = Len(completed)
    /\ syncs' = [syncs EXCEPT ![Head(pending).sync].clearedAt = Len(completed)]
    /\ pending' = Tail(pending)
    /\ last' = NoCompletion
    /\ threw' = FALSE
    /\ UNCHANGED <<online, db, openReq, keyGen, saveCount, completed, storeAtLoad,
                   savesAtTrigger>>

\* variant: the confirmation is placed in the catch handler as well
OnResponse_AlertInCatch(s, status, body) ==
    LET got == [s EXCEPT !.phase = "done"]
    IN IF status = NetworkError \/ ~body.json
       THEN [got EXCEPT !.logged = @ + 1, !.alerts = @ + 1]
       ELSE IF body.message # NoField /\ body.message # ""
       THEN [got EXCEPT !.logged = @ + 1, !.alerts = @ + 1]
       ELSE [got EXCEPT !.clears = @ + 1, !.alerts = @ + 1]

\* variant: the test of serverResponse.message is missing
OnResponse_NoMessageTest(s, status, body) ==
    LET got == [s EXCEPT !.phase = "done"]
    IN IF status = NetworkError \/ ~body.json
       THEN [got EXCEPT !.logged = @ + 1]
       ELSE [got EXCEPT !.clears = @ + 1, !.alerts = @ + 1]

\* variant: the catch handler sends the batch again, once
OnResponse_RetryInCatch(s, status, body) ==
    LET got == [s EXCEPT !.phase = "done"]
        again == IF s.posts < 2
                 THEN [got EXCEPT !.phase = "fetch", !.posts = @ + 1]
                 ELSE got
    IN IF status = NetworkError \/ ~body.json
       THEN [again EXCEPT !.logged = @ + 1]
       ELSE IF body.message # NoField /\ body.message # ""
       THEN [again EXCEPT !.logged = @ + 1]
       ELSE [got EXCEPT !.clears = @ + 1, !.alerts = @ + 1]

\* .then(response => response.json()).then(serverResponse => ...).catch(...)
\* what the promise chain does with a completed POST
OnResponse(s, status, body) ==
    LET got == [s EXCEPT !.phase = "done"]
    IN IF status = NetworkError \/ ~body.json
       THEN [got EXCEPT !.logged = @ + 1]        \* fetch or json() rejected
       ELSE IF Truthy(body.message)
       THEN [got EXCEPT !.logged = @ + 1]        \* throw new Error(...)
       ELSE [got EXCEPT !.clears = @ + 1, !.alerts = @ + 1]

\* the POST of sync i completes with an HTTP response
FetchResolve(i, status, body) ==
    /\ UNCHANGED serverVars
    /\ i \in 1..Len(syncs)
    /\ syncs[i].phase = "fetch"
    /\ syncs' = [syncs EXCEPT ![i] =
           [OnResponse(syncs[i], status, body) EXCEPT !.accepted =
               status >= 200 /\ status <= 299 /\ body.json
                   /\ body.message = NoField]]
    /\ pending' = IF syncs'[i].clears > syncs[i].clears
                  THEN Append(pending, Req("clear", NoValue, i))
                  ELSE pending
    /\ last' = [sync |-> i, status |-> status, body |-> body]
    /\ threw' = FALSE
    /\ UNCHANGED <<online, db, openReq, store, keyGen, saveCount, completed, clearedUpTo, removed, storeAtLoad,
                   savesAtTrigger>>

\* the POST of sync i fails with a network error
FetchReject(i) ==
    /\ UNCHANGED serverVars
    /\ i \in 1..Len(syncs)
    /\ syncs[i].phase = "fetch"
    /\ syncs' = [syncs EXCEPT ![i] = OnResponse(syncs[i], NetworkError, NoBody)]
    /\ pending' = IF syncs'[i].clears > syncs[i].clears
                  THEN Append(pending, Req("clear", NoValue, i))
                  ELSE pending
    /\ last' = [sync |-> i, status |-> NetworkError, body |-> NoBody]
    /\ threw' = FALSE
    /\ UNCHANGED <<online, db, openReq, store, keyGen, saveCount, completed, clearedUpTo, removed, storeAtLoad,
                   savesAtTrigger>>

\* variant: a store that does not outlive the page
Restart_VolatileStore ==
    /\ UNCHANGED serverVars
    /\ db' = "undefined"
    /\ openReq' = "pending"
    /\ pending' = <<>>
    /\ syncs' = [i \in 1..Len(syncs) |->
                    IF syncs[i].phase = "done"
                    THEN [syncs[i] EXCEPT !.current = FALSE, !.trigger = "<past>"]
                    ELSE [syncs[i] EXCEPT !.current = FALSE, !.trigger = "<past>",
                                          !.phase = "aborted"]]
    /\ storeAtLoad' = store
    /\ store' = <<>>
    /\ last' = NoCompletion
    /\ threw' = FALSE
    /\ UNCHANGED <<online, keyGen, saveCount, completed, clearedUpTo,
                   removed, savesAtTrigger>>

\* the page is reloaded: the script runs again from line 1.  The object
\* store persists; requests not yet executed are aborted with the old
\* connection and callbacks of the old page never run.
Restart ==
    /\ UNCHANGED serverVars
    /\ db' = "undefined"
    /\ openReq' = "pending"
    /\ pending' = <<>>
    /\ syncs' = [i \in 1..Len(syncs) |->
                    IF syncs[i].phase = "done"
                    THEN [syncs[i] EXCEPT !.current = FALSE, !.trigger = "<past>"]
                    ELSE [syncs[i] EXCEPT !.current = FALSE, !.trigger = "<past>",
                                          !.phase = "aborted"]]
    /\ storeAtLoad' = store
    /\ store' = store
    /\ last' = NoCompletion
    /\ threw' = FALSE
    /\ UNCHANGED <<online, keyGen, saveCount, completed, clearedUpTo,
                   removed, savesAtTrigger>>

Next ==
    \/ OpenSuccess
    \/ OpenError
    \/ \E name \in PizzaNames : SaveRecord(name)
    \/ GoOffline
    \/ OnlineEvent
    \/ IDBAdd
    \/ IDBAddError
    \/ IDBGetAll
    \/ IDBClear
    \/ \E i \in 1..MaxSyncs, st \in Statuses, b \in Bodies : FetchResolve(i, st, b)
    \/ \E i \in 1..MaxSyncs : FetchReject(i)
    \/ Restart

Spec == Init /\ [][Next]_allVars

\* ---- the server: handlers ----
\* remove one document from a collection
Without(collection, id) ==
    [k \in DOMAIN collection \ {id} |-> collection[k]]

\* the _id of the document created from element k when the elements in
\* `saved` are the ones that get saved
IdAt(k, saved) == pizzaSeq + Cardinality({j \in saved : j <= k})

\* Pizza.create(): the elements in `saved` become documents
PizzaCreate(items, saved) ==
    /\ pizzas' =
          [id \in DOMAIN pizzas \cup {IdAt(k, saved) : k \in saved} |->
              IF id \in DOMAIN pizzas THEN pizzas[id]
              ELSE NewPizza(items[CHOOSE k \in saved : IdAt(k, saved) = id])]
    /\ pizzaSeq' = pizzaSeq + Cardinality(saved)

\* what Pizza.create() resolves with: the document, or the array of them
Created(body) ==
    LET all == 1..Len(body.items)
        docs == [k \in all |-> PizzaJson(IdAt(k, all), NewPizza(body.items[k]))]
    IN  IF body.array THEN Json("array", 0, docs, NoField)
        ELSE Json("document", docs[1].id, docs, NoField)

\* variant: createPizza that rejects an array body
createPizza_RejectsArrays(body) ==
    /\ pizzaSeq + Len(body.items) <= MaxPizzas
    /\ LET all == 1..Len(body.items)
           ok == ~body.array /\ \A k \in all : ValidPizza(body.items[k])
       IN  /\ PizzaCreate(body.items, IF ok THEN all ELSE {})
           /\ res' = IF ok THEN ResJson(NoResponse, 200, Created(body))
                     ELSE ResJson(NoResponse, 400, ValidationError)
    /\ req' = Request("createPizza", 0, 0, 0, body)
    /\ UNCHANGED <<comments, commentSeq, replySeq>>
    /\ UNCHANGED vars

\* POST /api/pizzas. Pizza.create(body) validates every element; it
\* resolves when all are valid and saved, and rejects with the validation
\* error otherwise (the valid elements of a rejected array may or may not
\* have been saved).
createPizza(body) ==
    /\ pizzaSeq + Len(body.items) <= MaxPizzas
    /\ LET all == 1..Len(body.items)
           valid == {k \in all : ValidPizza(body.items[k])}
           ok == valid = all
       IN  \E saved \in (IF ok THEN {all} ELSE SUBSET valid) :
              /\ PizzaCreate(body.items, saved)
              /\ res' = IF ok THEN ResJson(NoResponse, 200, Created(body))
                        ELSE ResJson(NoResponse, 400, ValidationError)
    /\ req' = Request("createPizza", 0, 0, 0, body)
    /\ UNCHANGED <<comments, commentSeq, replySeq>>
    /\ UNCHANGED vars

\* DELETE /api/pizzas/:id
deletePizza(id) ==
    /\ IF id \in DOMAIN pizzas
       THEN /\ pizzas' = Without(pizzas, id)
            /\ res' = ThenCatch(
                   Json("document", id, <<PizzaJson(id, pizzas[id])>>, NoField), 400)
       ELSE /\ pizzas' = pizzas
            /\ res' = ResJson(NoResponse, 404, NoPizzaFound)
    /\ req' = Request("deletePizza", id, 0, 0, NoItems)
    /\ UNCHANGED <<comments, pizzaSeq, commentSeq, replySeq>>
    /\ UNCHANGED vars

\* POST /api/comments/:pizzaId. The comment is created first; then its
\* _id is pushed to the pizza, if there is one, and the updated pizza is
\* handed to res.json().
addComment(pizzaId) ==
    /\ commentSeq < MaxComments
    /\ commentSeq' = commentSeq + 1
    /\ comments' = (commentSeq' :> [replies |-> <<>>]) @@ comments
    /\ IF pizzaId \in DOMAIN pizzas
       THEN /\ pizzas' = [pizzas EXCEPT ![pizzaId].comments = Append(@, commentSeq')]
            /\ res' = ThenCatch(
                   Json("document", pizzaId, <<PizzaJson(pizzaId, pizzas'[pizzaId])>>, NoField),
                   200)
       ELSE /\ pizzas' = pizzas
            /\ res' = ResJson(NoResponse, 404, NoPizzaFound)
    /\ req' = Request("addComment", pizzaId, 0, 0, NoItems)
    /\ UNCHANGED <<pizzaSeq, replySeq>>
    /\ UNCHANGED vars

\* PUT /api/comments/:pizzaId/:commentId (params.pizzaId is not used)
addReply(commentId) ==
    /\ IF commentId \in DOMAIN comments
       THEN /\ replySeq < MaxReplies
            /\ replySeq' = replySeq + 1
            /\ comments' = [comments EXCEPT ![commentId].replies = Append(@, replySeq')]
            /\ res' = ResJson(NoResponse, 200, Json("comment", commentId, <<>>, NoField))
       ELSE /\ UNCHANGED <<comments, replySeq>>
            /\ res' = ResJson(NoResponse, 404, NoPizzaFound)
    /\ req' = Request("addReply", 0, commentId, 0, NoItems)
    /\ UNCHANGED <<pizzas, pizzaSeq, commentSeq>>
    /\ UNCHANGED vars

\* DELETE /api/comments/:pizzaId/:commentId/:replyId (params.pizzaId is
\* not used)
removeReply(commentId, replyId) ==
    /\ IF commentId \in DOMAIN comments
       THEN /\ comments' = [comments EXCEPT ![commentId].replies =
                                SelectSeq(@, LAMBDA r : r # replyId)]
            /\ res' = ResJson(NoResponse, 200, Json("comment", commentId, <<>>, NoField))
       ELSE /\ comments' = comments
            /\ res' = ResJson(NoResponse, 200, NullJson)
    /\ req' = Request("removeReply", 0, commentId, replyId, NoItems)
    /\ UNCHANGED <<pizzas, pizzaSeq, commentSeq, replySeq>>
    /\ UNCHANGED vars

\* DELETE /api/comments/:pizzaId/:commentId. When no comment matches, the
\* first .then() returns what res.status(404).json() returns, the response
\* object; the second .then() takes it for the pizza and calls
\* res.json(res), which throws; .catch() calls res.json(err), which throws
\* again, and that rejection has no handler.
removeComment(pizzaId, commentId) ==
    /\ IF commentId \notin DOMAIN comments
       THEN /\ res' = [ResJson(ResJson(ResJson(NoResponse,
                            404, NoCommentFound), 200, ResObject), 200, TypeErrorJson)
                          EXCEPT !.unhandled = TRUE]
            /\ UNCHANGED <<pizzas, comments>>
       ELSE /\ comments' = Without(comments, commentId)
            /\ IF pizzaId \in DOMAIN pizzas
               THEN /\ pizzas' = [pizzas EXCEPT ![pizzaId].comments =
                                      SelectSeq(@, LAMBDA c : c # commentId)]
                    /\ res' = ThenCatch(
                           Json("document", pizzaId,
                                <<PizzaJson(pizzaId, pizzas'[pizzaId])>>, NoField), 200)
               ELSE /\ pizzas' = pizzas
                    /\ res' = ResJson(NoResponse, 404, NoPizzaFound)
    /\ req' = Request("removeComment", pizzaId, commentId, 0, NoItems)
    /\ UNCHANGED <<pizzaSeq, commentSeq, replySeq>>
    /\ UNCHANGED vars

\* the server alone: no page is open
ServerInit == Init /\ ~online

ServerNext ==
    \/ \E body \in PizzaBodies : createPizza(body)
    \/ \E id \in 1..MaxPizzas : deletePizza(id)
    \/ \E p \in 1..MaxPizzas : addComment(p)
    \/ \E c \in 1..MaxComments : addReply(c)
    \/ \E c \in 1..MaxComments, r \in 1..MaxReplies : removeReply(c, r)
    \/ \E p \in 1..MaxPizzas, c \in 1..MaxComments : removeComment(p, c)

ServerSpec == ServerInit /\ [][ServerNext]_allVars

\* ---- vocabulary of the properties ----
SyncIds == 1..Len(syncs)
StoredIds == {store[k].value.id : k \in 1..Len(store)}
Is2xx(status) == status >= 200 /\ status <= 299
\* the records of a batch that was POSTed
SentIds(s) == IF s.posts > 0 THEN Ids(s.batch) ELSE {}
\* the step just taken handled an HTTP response / a JSON value
LastIsHttp == last.sync > 0 /\ last.status \in Statuses
LastIsJson == LastIsHttp /\ last.body.json
LastSync == syncs[last.sync]

\* C1: a record is removed from the local store only after a batch that
\* contained it has received a successful server response.
C1_RemovedOnlyAfterAcceptance ==
    \A r \in removed :
        \E j \in SyncIds : r[1] \in SentIds(syncs[j]) /\ syncs[j].accepted

\* C2: a POST that completes with a non-2xx status, whatever its body, is a
\* failure: the sync issues no clear() and emits no confirmation.
C2_Non2xxIsFailure ==
    (LastIsHttp /\ ~Is2xx(last.status))
        => (LastSync.clears = 0 /\ LastSync.alerts = 0)

\* C3: when a trigger fires while the previous trigger's drain or POST is
\* still in flight and no saveRecord was called between the two, the second
\* drain returns the empty sequence and no record is POSTed in both batches.
C3_SecondDrainEmpty ==
    \A j \in SyncIds :
        (j > 1 /\ syncs[j].quick /\ syncs[j].drained)
            => /\ syncs[j].batch = <<>>
               /\ SentIds(syncs[j]) \cap SentIds(syncs[j-1]) = {}

\* C4: a parsed response without message field makes the sync issue clear()
\* once and then emit exactly one confirmation; a confirmation is emitted
\* only by a sync that issued clear(); an issued clear() is placed on the
\* store; and the store is empty when a clear() has executed.
C4_Inv ==
    /\ (LastIsJson /\ last.body.message = NoField)
          => (LastSync.clears = 1 /\ LastSync.alerts = 1)
    /\ \A i \in SyncIds :
        /\ syncs[i].alerts <= syncs[i].clears
        /\ syncs[i].alerts <= 1
        /\ (syncs[i].clears = 1 /\ syncs[i].clearedAt < 0 /\ syncs[i].current)
             => \E k \in 1..Len(pending) :
                    pending[k].op = "clear" /\ pending[k].sync = i
C4_ClearThenConfirm == [](C4_Inv) /\ [][IDBClear => store' = <<>>]_vars

C4_Witness ==
    \E i \in SyncIds :
        /\ syncs[i].accepted /\ syncs[i].alerts = 1 /\ syncs[i].clearedAt >= 0
        /\ Len(syncs[i].batch) > 0 /\ store = <<>>

C5_Inv ==
    (last.sync > 0 /\
        (\/ last.status = NetworkError
         \/ (last.status = 200 /\ last.body.json
               /\ last.body.message \notin {NoField, ""})))
        => (LastSync.logged = 1 /\ LastSync.clears = 0 /\ LastSync.alerts = 0)
C5_FailureStep ==
    \E i \in SyncIds :
        \/ FetchReject(i)
        \/ \E m \in Messages \ {NoField, ""} :
               FetchResolve(i, 200, [json |-> TRUE, message |-> m])
C6_DrainInInsertionOrder ==
    \A i \in SyncIds :
        (syncs[i].drained /\ syncs[i].base = 0)
            => syncs[i].batch = SubSeq(completed, 1, syncs[i].seen)

C6_Witness ==
    \E i \in SyncIds :
        /\ syncs[i].drained /\ syncs[i].base = 0
        /\ Len(syncs[i].batch) = 2
        /\ syncs[i].batch[1].id < syncs[i].batch[2].id

\* C7: a record whose add() completed after a sync's drain and before that
\* sync's clear() executed is not in the sync's batch and is no longer in
\* the store once the clear() has executed.
C7_LateRecordClearedUnsent ==
    \A i \in SyncIds :
        syncs[i].clearedAt >= 0 =>
            \A k \in (syncs[i].seen + 1)..syncs[i].clearedAt :
                /\ completed[k].id \notin Ids(syncs[i].batch)
                /\ completed[k].id \notin StoredIds

\* a record was enqueued, was never POSTed and is no longer queued
C7_Witness ==
    \E k \in 1..Len(completed) :
        /\ completed[k].id \notin StoredIds
        /\ \A i \in SyncIds : completed[k].id \notin SentIds(syncs[i])
        /\ \E i \in SyncIds : <<completed[k].id, i>> \in removed

\* the first uploadPizza() run of the page now loaded
FirstOfLoad(i) ==
    /\ syncs[i].current
    /\ \A j \in 1..(i-1) : ~syncs[j].current

\* C8: the records in the store when the page is (re)loaded are returned,
\* in order, at the head of the first drain after the load; when that drain
\* belongs to the sync started by the open-success callback (online at
\* reopen) it returns exactly those records and POSTs them.
C8_SurvivesRestart ==
    \A i \in SyncIds :
        (FirstOfLoad(i) /\ syncs[i].drained)
            => LET kept == GetAllResult(storeAtLoad)
               IN /\ Len(syncs[i].batch) >= Len(kept)
                  /\ SubSeq(syncs[i].batch, 1, Len(kept)) = kept
                  /\ syncs[i].trigger = "open" =>
                        /\ syncs[i].batch = kept
                        /\ kept # <<>> => syncs[i].posts = 1

C8_Witness ==
    \E i \in SyncIds :
        /\ FirstOfLoad(i) /\ syncs[i].drained
        /\ syncs[i].trigger = "open"
        /\ storeAtLoad # <<>> /\ syncs[i].posts = 1

\* C9: a sync issues at most one POST, and only when its drain returned a
\* non-empty sequence; a failed submission issues no further POST.
C9_NoRetry ==
    \A i \in SyncIds :
        syncs[i].posts <= (IF syncs[i].drained /\ syncs[i].batch # <<>> THEN 1 ELSE 0)

C9_Witness ==
    \E i \in SyncIds :
        /\ syncs[i].phase = "done" /\ syncs[i].logged = 1 /\ syncs[i].posts = 1
        /\ pending = <<>> /\ store # <<>>
        /\ \A j \in SyncIds : ~InFlight(syncs[j])

\* C10: a sync whose drain returned the empty sequence issues no POST, no
\* clear(), no confirmation and logs no error, and the drain step leaves
\* the store unchanged.
C10_Inv ==
    \A i \in SyncIds :
        (syncs[i].drained /\ syncs[i].batch = <<>>)
            => /\ syncs[i].phase = "done"
               /\ syncs[i].posts = 0 /\ syncs[i].clears = 0
               /\ syncs[i].alerts = 0 /\ syncs[i].logged = 0
               /\ last.sync # i
C10_EmptyDrainNoOp == [](C10_Inv) /\ [][IDBGetAll => store' = store]_vars

C10_Witness ==
    \E i \in SyncIds :
        /\ syncs[i].drained /\ syncs[i].batch = <<>> /\ syncs[i].phase = "done"
        /\ keyGen = 0

\* C11: a drain returns every record whose add() had completed when the
\* drain executed (so every one completed before uploadPizza was called)
\* and that no clear() had removed by then.
C11_DrainObservesCompleted ==
    \A i \in SyncIds :
        syncs[i].drained =>
            \A k \in (syncs[i].base + 1)..syncs[i].seen :
                \E p \in 1..Len(syncs[i].batch) : syncs[i].batch[p] = completed[k]

\* a drain that ran after an earlier clear() and returned later records
C11_Witness ==
    \E i \in SyncIds :
        /\ syncs[i].drained /\ syncs[i].base > 0
        /\ syncs[i].seen > syncs[i].base
        /\ syncs[i].batch = SubSeq(completed, syncs[i].base + 1, syncs[i].seen)

\* C12: uploadPizza is called once by every offline-to-online transition
\* that finds the connection open, once by the open-success callback when
\* the browser is online at that moment, and by nothing else; an open that
\* succeeds while offline places no request, so the first run of that page
\* is one started by an 'online' event.
C12_NewRun(trigger) ==
    /\ Len(syncs') = Len(syncs) + 1
    /\ SubSeq(syncs', 1, Len(syncs)) = syncs
    /\ syncs'[Len(syncs')].trigger = trigger
    /\ syncs'[Len(syncs')].phase = "getAll"
    /\ pending' = Append(pending, Req("getAll", NoValue, Len(syncs')))
C12_Step ==
    /\ (OnlineEvent /\ db = "open") => C12_NewRun("online")
    /\ (OpenSuccess /\ online) => C12_NewRun("open")
    /\ (OpenSuccess /\ ~online) => (syncs' = syncs /\ pending' = pending)
    /\ Len(syncs') > Len(syncs) =>
          (Len(syncs') = Len(syncs) + 1 /\ (OnlineEvent \/ (OpenSuccess /\ online)))
C12_TriggeredByOnlineAndOpen == [][C12_Step]_vars

\* the page was opened offline and its first run was started, and has
\* drained and POSTed, after a later 'online' event
C12_Witness ==
    \E i \in SyncIds :
        /\ FirstOfLoad(i) /\ syncs[i].trigger = "online"
        /\ syncs[i].drained /\ syncs[i].posts = 1

\* C13: a drain that returns at least one record is followed by exactly
\* one POST, and the body of that POST is one JSON array that holds the
\* drain's whole result, every record in drain order.
C13_OnePostWithWholeBatch ==
    \A i \in SyncIds :
        (syncs[i].drained /\ Len(syncs[i].batch) > 0) =>
            /\ syncs[i].posts = 1
            /\ syncs[i].batch = SubSeq(completed, syncs[i].base + 1, syncs[i].seen)
            /\ Head(syncs[i].postBody) = "["
            /\ syncs[i].postBody[Len(syncs[i].postBody)] = "]"
            /\ JSONParse(syncs[i].postBody) = syncs[i].batch

\* a drain of two records was POSTed as one array
C13_Witness ==
    \E i \in SyncIds :
        /\ syncs[i].drained /\ Len(syncs[i].batch) = 2
        /\ syncs[i].posts = 1
        /\ Len(JSONParse(syncs[i].postBody)) = 2

\* C14: when saveRecord has returned, the write is durable: the record it
\* was given has been added to the store, or its add() is still ahead of
\* every later drain in the request queue and will be; a reload or a
\* storage error cannot lose it.
C14_SavedOnReturn ==
    \A id \in 1..saveCount :
        \/ id \in Ids(completed)
        \/ \E k \in 1..Len(pending) :
               pending[k].op = "add" /\ pending[k].value.id = id

\* C15: clear() removes every record present when it executes: a drain
\* that runs after a clear() with no add() completed in between returns
\* the empty sequence, and the store always holds exactly the records
\* added since the last clear().
C15_ClearThenDrainIsEmpty ==
    /\ GetAllResult(store) = SubSeq(completed, clearedUpTo + 1, Len(completed))
    /\ \A i \in SyncIds :
          (syncs[i].drained /\ syncs[i].seen = syncs[i].base) =>
              syncs[i].batch = <<>>

\* a record was saved, the store was then cleared, and a later drain with
\* no save in between returned nothing
C15_Witness ==
    \E i \in SyncIds :
        /\ syncs[i].drained /\ syncs[i].base >= 1
        /\ syncs[i].seen = syncs[i].base
        /\ syncs[i].batch = <<>>

\* C16: createPizza accepts one pizza object and an array of them: when
\* every element is valid it answers 200 with one created document per
\* element (the document itself for a single object), each of them in the
\* collection under its own _id; any rejected body is answered with status
\* 400 and the error object.
C16_CreatePizzaContract ==
    req.handler = "createPizza" =>
        LET items == req.body.items
            all == 1..Len(items)
            sent == res.calls[1]
        IN  /\ Len(res.calls) = 1
            /\ sent.outcome = "sent"
            /\ (\A k \in all : ValidPizza(items[k])) =>
                  /\ sent.status = 200
                  /\ sent.body.kind = IF req.body.array THEN "array" ELSE "document"
                  /\ Len(sent.body.docs) = Len(items)
                  /\ \A k \in all :
                        LET doc == sent.body.docs[k]
                        IN  /\ doc.id \in DOMAIN pizzas
                            /\ PizzaJson(doc.id, pizzas[doc.id]) = doc
                            /\ doc.pizzaName = items[k].pizzaName
                            /\ doc.createdBy = items[k].createdBy
                            /\ doc.size \in SizeEnum
                            /\ \A j \in all \ {k} : sent.body.docs[j].id # doc.id
            /\ (\E k \in all : ~ValidPizza(items[k])) =>
                  /\ sent.status = 400
                  /\ sent.body.kind = "error"

\* an array of two valid pizzas was answered with the two new documents
C16_Witness ==
    /\ req.handler = "createPizza"
    /\ req.body.array /\ Len(req.body.items) = 2
    /\ Len(res.calls) = 1
    /\ res.calls[1].status = 200
    /\ Len(res.calls[1].body.docs) = 2
    /\ Cardinality(DOMAIN pizzas) >= 2

\* C17: saveRecord and uploadPizza run only once the connection has been
\* established: no step uses the global `db` while it is undefined.
C17_DbNeverUsedUndefined == ~threw

\* C18: no enqueued record disappears unsubmitted: a record whose add()
\* completed is still in the store, where a later sync will find it, or
\* was part of a batch the server accepted. (A record that has left the
\* store is never POSTed again, so a state that breaks this is one from
\* which the record is never accepted.)
C18_NoRecordLostUnsubmitted ==
    \A k \in 1..Len(completed) :
        \/ completed[k].id \in StoredIds
        \/ \E j \in SyncIds :
               /\ completed[k].id \in SentIds(syncs[j])
               /\ syncs[j].accepted

\* C19: every handler of the comment controller sends exactly one
\* response per request and attempts no write once it is sent;
\* removeComment with no matching comment sends the 404 and touches
\* neither the response nor a pizza again.
C19_OneResponseWrite ==
    req.handler \in {"addComment", "addReply", "removeReply", "removeComment"} =>
        /\ Cardinality({k \in 1..Len(res.calls) : res.calls[k].outcome = "sent"}) = 1
        /\ res.calls[Len(res.calls)].outcome = "sent"
        /\ ~res.unhandled

\* C20: every id in a pizza's comments array is the _id of an existing
\* Comment document, and every Comment document is referenced by exactly
\* one pizza, once.
C20_CommentReferences ==
    /\ \A p \in DOMAIN pizzas :
          \A k \in 1..Len(pizzas[p].comments) :
              pizzas[p].comments[k] \in DOMAIN comments
    /\ \A c \in DOMAIN comments :
          Cardinality({<<p, k>> \in (DOMAIN pizzas) \X (1..MaxComments) :
                          /\ k <= Len(pizzas[p].comments)
                          /\ pizzas[p].comments[k] = c}) = 1

\* the replies of the comments a comments array names
RECURSIVE C21_Replies(_)
C21_Replies(ids) ==
    IF ids = <<>> THEN 0
    ELSE (IF Head(ids) \in DOMAIN comments THEN Len(comments[Head(ids)].replies) ELSE 0)
         + C21_Replies(Tail(ids))

\* C21: for every pizza, commentCount is the number of comments in its
\* comments array plus the number of replies of those comments, and 0 when
\* the array is empty.
C21_CommentCountIsTotal ==
    \A p \in DOMAIN pizzas :
        commentCount(Unpopulated(pizzas[p].comments))
            = Len(pizzas[p].comments) + C21_Replies(pizzas[p].comments)

TypeOK ==
    /\ online \in BOOLEAN
    /\ db \in {"undefined", "open"}
    /\ openReq \in {"pending", "success", "error"}
    /\ keyGen \in 0..MaxSaves
    /\ Len(syncs) <= MaxSyncs
    /\ saveCount \in 0..MaxSaves
    /\ last.sync \in 0..MaxSyncs
====
